---------------------------- MODULE Spec2Model ----------------------------
(***************************************************************************)
(* A model of the DuckSearch retrieval client                              *)
(* (src/training/duck_search/duck_search.py and its two page parsers).     *)
(*                                                                         *)
(* Time is discrete: the clock counts whole seconds and every event falls  *)
(* on a whole second.  Tokens are counted in units of 1/6 token, so that   *)
(* refill_rate = 1/6 token per second is one unit per second and one whole *)
(* token is OneToken = 6 units.                                            *)
(***************************************************************************)
EXTENDS Integers, Sequences, FiniteSets, TLC

\* ------------------------------------------------------------------ bounds

\* A clock that runs freely (Tick) stops at MaxTime seconds.
MaxTime == 13

\* A clock that runs only while a caller is blocked (Elapse) stops at Horizon.
Horizon == 27

\* The callers make at most MaxCalls calls on the client, all together.
MaxCalls == 2

\* At most MaxSearches of the calls are calls of text().
MaxSearches == 1

\* A clock that runs for a _make_request() call to its end stops at SendHorizon.
SendHorizon == 31

\* ------------------------------------------------------- program constants

\* One token, in token units (bucket_capacity = 1.0 at refill_rate = 1/6).
OneToken == 6

\* self.bucket_capacity = 1.0
bucket_capacity == OneToken

\* self.refill_rate = 1/6 token per second = 1 token unit per second.
refill_rate == 1

\* max_attempts = 5
max_attempts == 5

\* base_delay = 1.0, in tenths of a second
base_delay == 10

\* random.uniform(0.8, 1.2), in tenths, on a grid of 0.1
JitterLo == 8
JitterHi == 12

\* The callers (threads) that may use the one client.
Callers == {"c1", "c2"}

Min(a, b) == IF a <= b THEN a ELSE b

\* ------------------------------------------------------------------- state

VARIABLES
    clock,              \* what time() returns
    tokens,             \* self.tokens
    token_last_refill,  \* self.token_last_refill
    pc,                 \* each caller's position in the code
    entry,              \* the method each caller called on the client
    now,                \* _wait_for_token: local now
    elapsed,            \* _wait_for_token: local elapsed
    acc,                \* _wait_for_token: self.tokens as loaded by "-= 1"
    wake,               \* the time at which the caller's sleep() may end
    depth,              \* _wait_for_token: depth of the recursion
    attempt,            \* _make_request: the loop variable attempt
    resp,               \* _make_request: what the transport answered last
    delay,              \* _make_request: local delay, in tenths of a second
    ret,                \* what the caller's _make_request returned or raised
    nAcq,               \* history: _wait_for_token calls completed in this send
    nReq,               \* history: transport requests issued in this send
    nSleep,             \* history: backoff sleeps started in this send
    answers,            \* history: the statuses answered in this send (0: an exception)
    backend,            \* text: argument backend
    max_results,        \* text: argument max_results, <<>> for None and <<n>> for n
    timelimit,          \* text: argument timelimit, <<>> for None
    backends,           \* text: the list backends
    bi,                 \* text: position of the for loop in backends
    last_err,           \* text: last_err, <<>> for None
    payload,            \* _search_paginated: payload
    results,            \* _search_paginated: results
    seen,               \* _search_paginated: seen
    result,             \* what the caller's text() returned or raised
    tried,              \* history: the backends whose pagination loop was run
    nFailed,            \* history: how many of them raised
    pages,              \* history: the bodies each pagination loop was handed
    errors,             \* history: what each failed pagination loop raised
    nPages,             \* history: page requests made by the running loop
    calls,              \* history: calls made on the client so far
    granted,            \* history: tokens debited so far
    nret,               \* history: _wait_for_token calls returned (up to 2)
    lastRet,            \* history: clock when the last call returned
    lastStamp           \* history: clock reading of the pass that debited

bucketVars == <<tokens, token_last_refill>>
waitVars == <<now, elapsed, acc, depth>>
histVars == <<calls, granted, nret, lastRet, lastStamp>>
sendVars == <<attempt, resp, delay, ret>>
sendHist == <<nAcq, nReq, nSleep, answers>>
textVars == <<backend, max_results, timelimit, backends, bi, last_err, result>>
pageVars == <<payload, results, seen>>
searchHist == <<tried, nFailed, pages, errors, nPages>>
searchVars == <<textVars, pageVars, searchHist>>
upperVars == <<sendVars, sendHist, searchVars>>
vars == <<clock, tokens, token_last_refill, pc, entry, now, elapsed, acc,
          wake, depth, calls, granted, nret, lastRet, lastStamp,
          attempt, resp, delay, ret, nAcq, nReq, nSleep, answers,
          backend, max_results, timelimit, backends, bi, last_err,
          payload, results, seen, result, tried, nFailed, pages, errors, nPages>>

NoResp == [kind |-> "none"]
NoRet == [kind |-> "none"]

\* DuckSearch.__init__: a full bucket, stamped with the time of construction.
Init ==
    /\ clock = 0
    /\ tokens = bucket_capacity
    /\ token_last_refill = 0
    /\ pc = [c \in Callers |-> "idle"]
    /\ entry = [c \in Callers |-> "none"]
    /\ now = [c \in Callers |-> 0]
    /\ elapsed = [c \in Callers |-> 0]
    /\ acc = [c \in Callers |-> 0]
    /\ wake = [c \in Callers |-> 0]
    /\ depth = [c \in Callers |-> 0]
    /\ attempt = [c \in Callers |-> 0]
    /\ resp = [c \in Callers |-> NoResp]
    /\ delay = [c \in Callers |-> 0]
    /\ ret = [c \in Callers |-> NoRet]
    /\ nAcq = [c \in Callers |-> 0]
    /\ nReq = [c \in Callers |-> 0]
    /\ nSleep = [c \in Callers |-> 0]
    /\ answers = [c \in Callers |-> {}]
    /\ backend = [c \in Callers |-> ""]
    /\ max_results = [c \in Callers |-> <<>>]
    /\ timelimit = [c \in Callers |-> <<>>]
    /\ backends = [c \in Callers |-> <<>>]
    /\ bi = [c \in Callers |-> 0]
    /\ last_err = [c \in Callers |-> <<>>]
    /\ payload = [c \in Callers |-> <<>>]
    /\ results = [c \in Callers |-> <<>>]
    /\ seen = [c \in Callers |-> {}]
    /\ result = [c \in Callers |-> NoRet]
    /\ tried = [c \in Callers |-> <<>>]
    /\ nFailed = [c \in Callers |-> 0]
    /\ pages = [c \in Callers |-> <<>>]
    /\ errors = [c \in Callers |-> <<>>]
    /\ nPages = [c \in Callers |-> 0]
    /\ calls = 0
    /\ granted = 0
    /\ nret = 0
    /\ lastRet = 0
    /\ lastStamp = 0

\* ------------------------------------------------------------------- clock

\* A caller is inside sleep().
Asleep(c) == pc[c] \in {"w_asleep", "m_asleep"}

\* Time passes while some caller sleeps, as far as its sleep needs.
Elapse ==
    /\ clock < Horizon
    /\ \E c \in Callers : Asleep(c) /\ clock < wake[c]
    /\ clock' = clock + 1
    /\ UNCHANGED <<bucketVars, pc, entry, waitVars, wake, histVars, upperVars>>

\* Elapse, as far as SendHorizon.
ElapseSend ==
    /\ clock < SendHorizon
    /\ \E c \in Callers : Asleep(c) /\ clock < wake[c]
    /\ clock' = clock + 1
    /\ UNCHANGED <<bucketVars, pc, entry, waitVars, wake, histVars, upperVars>>

\* Time passes, at any point of any caller's code.
Tick ==
    /\ clock < MaxTime
    /\ clock' = clock + 1
    /\ UNCHANGED <<bucketVars, pc, entry, waitVars, wake, histVars, upperVars>>

\* --------------------------------------------------------- _wait_for_token

\* A caller calls _wait_for_token() directly.
CallAcquire(c) ==
    /\ pc[c] = "idle"
    /\ calls < MaxCalls
    /\ calls' = calls + 1
    /\ pc' = [pc EXCEPT ![c] = "w_now"]
    /\ entry' = [entry EXCEPT ![c] = "acquire"]
    /\ UNCHANGED <<clock, bucketVars, waitVars, wake, upperVars,
                   granted, nret, lastRet, lastStamp>>

\* now = time()
WaitNow(c) ==
    /\ pc[c] = "w_now"
    /\ now' = [now EXCEPT ![c] = clock]
    /\ pc' = [pc EXCEPT ![c] = "w_elapsed"]
    /\ UNCHANGED <<clock, bucketVars, entry, elapsed, acc, depth, wake, histVars, upperVars>>

\* elapsed = now - self.token_last_refill
WaitElapsed(c) ==
    /\ pc[c] = "w_elapsed"
    /\ elapsed' = [elapsed EXCEPT ![c] = now[c] - token_last_refill]
    /\ pc' = [pc EXCEPT ![c] = "w_refill"]
    /\ UNCHANGED <<clock, bucketVars, entry, now, acc, depth, wake, histVars, upperVars>>

\* WaitRefill without the cap at bucket_capacity.
WaitRefillUncapped(c) ==
    /\ pc[c] = "w_refill"
    /\ tokens' = tokens + elapsed[c] * refill_rate
    /\ pc' = [pc EXCEPT ![c] = "w_stamp"]
    /\ UNCHANGED <<clock, token_last_refill, entry, waitVars, wake, histVars, upperVars>>

\* self.tokens = min(self.bucket_capacity, self.tokens + elapsed * self.refill_rate)
WaitRefill(c) ==
    /\ pc[c] = "w_refill"
    /\ tokens' = Min(bucket_capacity, tokens + elapsed[c] * refill_rate)
    /\ pc' = [pc EXCEPT ![c] = "w_stamp"]
    /\ UNCHANGED <<clock, token_last_refill, entry, waitVars, wake, histVars, upperVars>>

\* WaitStamp that leaves token_last_refill as it was.
WaitStampForgotten(c) ==
    /\ pc[c] = "w_stamp"
    /\ pc' = [pc EXCEPT ![c] = "w_test"]
    /\ UNCHANGED <<clock, bucketVars, entry, waitVars, wake, histVars, upperVars>>

\* self.token_last_refill = now
WaitStamp(c) ==
    /\ pc[c] = "w_stamp"
    /\ token_last_refill' = now[c]
    /\ pc' = [pc EXCEPT ![c] = "w_test"]
    /\ UNCHANGED <<clock, tokens, entry, waitVars, wake, histVars, upperVars>>

\* if self.tokens < 1: ... else: ...
WaitTest(c) ==
    /\ pc[c] = "w_test"
    /\ pc' = [pc EXCEPT ![c] = IF tokens < OneToken THEN "w_sleep" ELSE "w_load"]
    /\ UNCHANGED <<clock, bucketVars, entry, waitVars, wake, histVars, upperVars>>

\* WaitSleep that sleeps a second less than the refill needs.
WaitSleepTooShort(c) ==
    /\ pc[c] = "w_sleep"
    /\ wake' = [wake EXCEPT ![c] = clock + (OneToken - tokens) \div refill_rate - 1]
    /\ pc' = [pc EXCEPT ![c] = "w_asleep"]
    /\ UNCHANGED <<clock, bucketVars, entry, waitVars, histVars, upperVars>>

\* sleep((1 - self.tokens) / self.refill_rate): the sleep lasts at least that long.
WaitSleep(c) ==
    /\ pc[c] = "w_sleep"
    /\ wake' = [wake EXCEPT ![c] = clock + (OneToken - tokens) \div refill_rate]
    /\ pc' = [pc EXCEPT ![c] = "w_asleep"]
    /\ UNCHANGED <<clock, bucketVars, entry, waitVars, histVars, upperVars>>

\* The sleep ends; self._wait_for_token() is called again, one level deeper.
WaitRecurse(c) ==
    /\ pc[c] = "w_asleep"
    /\ clock >= wake[c]
    /\ depth' = [depth EXCEPT ![c] = depth[c] + 1]
    /\ wake' = [wake EXCEPT ![c] = 0]
    /\ pc' = [pc EXCEPT ![c] = "w_now"]
    /\ UNCHANGED <<clock, bucketVars, entry, now, elapsed, acc, histVars, upperVars>>

\* self.tokens -= 1, first half: load self.tokens
WaitLoad(c) ==
    /\ pc[c] = "w_load"
    /\ acc' = [acc EXCEPT ![c] = tokens]
    /\ pc' = [pc EXCEPT ![c] = "w_store"]
    /\ UNCHANGED <<clock, bucketVars, entry, now, elapsed, depth, wake, histVars, upperVars>>

\* self.tokens -= 1, second half: store the difference
WaitStore(c) ==
    /\ pc[c] = "w_store"
    /\ tokens' = acc[c] - OneToken
    /\ granted' = granted + 1
    /\ pc' = [pc EXCEPT ![c] = "w_return"]
    /\ UNCHANGED <<clock, token_last_refill, entry, waitVars, wake,
                   calls, nret, lastRet, lastStamp, upperVars>>

\* The innermost call returns and every enclosing call returns after it.
WaitReturn(c) ==
    /\ pc[c] = "w_return"
    /\ pc' = [pc EXCEPT ![c] = IF entry[c] = "acquire" THEN "idle" ELSE "m_request"]
    /\ entry' = [entry EXCEPT ![c] = IF entry[c] = "acquire" THEN "none" ELSE entry[c]]
    /\ nAcq' = [nAcq EXCEPT ![c] = IF entry[c] = "acquire" THEN 0 ELSE nAcq[c] + 1]
    /\ now' = [now EXCEPT ![c] = 0]
    /\ elapsed' = [elapsed EXCEPT ![c] = 0]
    /\ acc' = [acc EXCEPT ![c] = 0]
    /\ depth' = [depth EXCEPT ![c] = 0]
    /\ wake' = [wake EXCEPT ![c] = 0]
    /\ nret' = Min(nret + 1, 2)
    /\ lastRet' = clock
    /\ lastStamp' = now[c]
    /\ UNCHANGED <<clock, bucketVars, calls, granted, sendVars, nReq, nSleep, answers,
                   searchVars>>

WaitForToken(c) ==
    \/ WaitNow(c)
    \/ WaitElapsed(c)
    \/ WaitRefill(c)
    \/ WaitStamp(c)
    \/ WaitTest(c)
    \/ WaitSleep(c)
    \/ WaitRecurse(c)
    \/ WaitLoad(c)
    \/ WaitStore(c)
    \/ WaitReturn(c)


\* ------------------------------------------------------------ the transport

\* The status codes the transport may answer with.
Statuses == {200, 202, 301, 403, 500}

\* ------------------------------------------------------------------ pages

\* A link as it stands in a page: ad is "google" or "ddg" when it starts with
\* "http://www.google.com/search?q=" or "https://duckduckgo.com/y.js?ad_domain",
\* path is what follows ("" for a missing or empty href), utm tells whether
\* tracking parameters are attached.
Href(p, u) == [ad |-> "none", path |-> p, utm |-> u]
NoHref == [ad |-> "none", path |-> "", utm |-> FALSE]
AdHref(a) == [ad |-> a, path |-> "sponsor", utm |-> FALSE]

\* One <div> with an <h2> of the html page: ./a/@href, ./h2/a/text(), ./a//text()
Div(h, t) == [href |-> h, title |-> <<t, " ">>, text |-> <<" ", t, "body">>]

\* The four <tr> rows of one result of the lite page: the link row, the snippet
\* row and two more rows.
LinkRow(h, t) == [href |-> h, title |-> <<t, " ">>, snippet |-> <<>>]
TextRow(t) == [href |-> NoHref, title |-> <<>>, snippet |-> <<" ", t, "body">>]
Group(h, t) == <<LinkRow(h, t), TextRow(t), TextRow(""), TextRow("")>>

\* The hidden inputs of one <div class="nav-link">.
NavLink(ns, vs) == [names |-> ns, values |-> vs]

\* A first page: two results and a continuation.
Page1 ==
    [no_results_html |-> FALSE, no_more_lite |-> FALSE,
     divs |-> <<Div(Href("a", FALSE), "A"), Div(Href("b", TRUE), "B")>>,
     rows |-> Group(Href("a", FALSE), "A") \o Group(Href("b", TRUE), "B"),
     nav |-> <<NavLink(<<"q", "s">>, <<"kw", "10">>)>>,
     next_s |-> <<"10">>]

\* A last page: one result of the first page again, one new one, an ad, and no
\* continuation.
Page2 ==
    [no_results_html |-> FALSE, no_more_lite |-> FALSE,
     divs |-> <<Div(Href("b", FALSE), "B"), Div(AdHref("google"), "Ad"),
                Div(Href("c", FALSE), "C")>>,
     rows |-> Group(Href("b", FALSE), "B") \o Group(AdHref("ddg"), "Ad")
                \o Group(Href("c", FALSE), "C"),
     nav |-> <<>>,
     next_s |-> <<>>]

\* A page that carries the no-results marker of both formats, and a continuation.
Page3 ==
    [no_results_html |-> TRUE, no_more_lite |-> TRUE,
     divs |-> <<Div(Href("d", FALSE), "D")>>,
     rows |-> Group(Href("d", FALSE), "D"),
     nav |-> <<NavLink(<<"q", "s">>, <<"kw", "20">>)>>,
     next_s |-> <<"20">>]

\* The bodies the transport may answer with.
Contents == {Page1, Page2, Page3}

\* str(ex) of the exceptions the transport may raise, letter by letter.
MsgTimedOut == <<"T", "i", "m", "e", "d", " ", "o", "u", "t">>
MsgTimeout == <<"t", "i", "m", "e", "o", "u", "t">>
MsgReset == <<"r", "e", "s", "e", "t">>
ExMessages == {MsgTimedOut, MsgTimeout, MsgReset}

\* What self.client.request() may do: answer 200 with a page, answer another
\* status with the page of no results, or raise.
Outcomes ==
    [kind : {"response"}, status_code : {200}, content : Contents]
        \cup [kind : {"response"}, status_code : Statuses \ {200}, content : {Page3}]
        \cup [kind : {"exception"}, msg : ExMessages]

\* ------------------------------------------------------- _calculate_backoff

Pow2(n) == IF n <= 0 THEN 1 ELSE 2 ^ n

\* random.uniform(0.8, 1.2), in tenths
Uniform == JitterLo .. JitterHi

\* _calculate_backoff with delay = base_delay * (2 ** attempt)
CalculateBackoffFromTwo(a) == {(base_delay * Pow2(a) * u) \div 10 : u \in Uniform}

\* delay = base_delay * (2 ** (attempt - 1)); return delay * random.uniform(0.8, 1.2)
\* The delays the call may return, in tenths of a second.
CalculateBackoff(a) == {(base_delay * Pow2(a - 1) * u) \div 10 : u \in Uniform}

\* The whole seconds a sleep of d tenths lasts at least.
SleepSeconds(d) == (d + 9) \div 10

\* ----------------------------------------------------------- _make_request

\* str.lower(), on one letter
LowerChar(ch) ==
    CASE ch = "T" -> "t"
      [] ch = "I" -> "i"
      [] ch = "M" -> "m"
      [] ch = "E" -> "e"
      [] OTHER -> ch

\* str(ex).lower()
Lower(msg) == [i \in 1 .. Len(msg) |-> LowerChar(msg[i])]

\* sub in text
Contains(text, sub) ==
    \E i \in 1 .. (Len(text) - Len(sub) + 1) : SubSeq(text, i, i + Len(sub) - 1) = sub

\* MentionsTime without the lower().
MentionsTimeCaseSensitive(msg) == Contains(msg, <<"t", "i", "m", "e">>)

\* "time" in str(ex).lower()
MentionsTime(msg) == Contains(Lower(msg), <<"t", "i", "m", "e">>)

\* The exception the except clause raises for a transport exception.
TransportException(msg) ==
    IF MentionsTime(msg)
    THEN [cls |-> "TimeoutException", fmt |-> "%s %s: %s", cause |-> msg]
    ELSE [cls |-> "DuckDuckGoSearchException", fmt |-> "%s %s: %s", cause |-> msg]

\* raise DuckDuckGoSearchException("%s returned status %s.", ...)
StatusException(status) ==
    [cls |-> "DuckDuckGoSearchException", fmt |-> "%s returned status %s.", cause |-> status]

\* raise RatelimitException("%s exceeded rate limit after %d attempts.", ...)
RatelimitException ==
    [cls |-> "RatelimitException", fmt |-> "%s exceeded rate limit after %d attempts.",
     cause |-> max_attempts]

\* IsSuccess testing for the wrong status.
IsSuccessCreated(status) == status = 201

\* resp.status_code == 200
IsSuccess(status) == status = 200

\* IsRetryable that also retries a server error.
IsRetryableWithServerError(status) == status \in {202, 301, 403, 500}

\* resp.status_code in (202, 301, 403)
IsRetryable(status) == status \in {202, 301, 403}

\* AttemptsRemain that gives up one attempt early.
AttemptsRemainOneShort(a) == a < max_attempts - 1

\* attempt < max_attempts
AttemptsRemain(a) == a < max_attempts

\* _make_request returns value v to its caller.
SendReturns(c, v) ==
    /\ ret' = [ret EXCEPT ![c] = [kind |-> "return", body |-> v]]
    /\ pc' = [pc EXCEPT ![c] = IF entry[c] = "send" THEN "done" ELSE "p_exhausted"]

\* _make_request raises exception e to its caller.
SendRaises(c, e) ==
    /\ ret' = [ret EXCEPT ![c] = [kind |-> "raise", exc |-> e]]
    /\ pc' = [pc EXCEPT ![c] = IF entry[c] = "send" THEN "done" ELSE "t_except"]

\* A caller calls _make_request() directly.
CallSend(c) ==
    /\ pc[c] = "idle"
    /\ calls < MaxCalls
    /\ calls' = calls + 1
    /\ pc' = [pc EXCEPT ![c] = "m_for"]
    /\ entry' = [entry EXCEPT ![c] = "send"]
    /\ UNCHANGED <<clock, bucketVars, waitVars, wake, upperVars,
                   granted, nret, lastRet, lastStamp>>

\* MakeRequestFor as a loop whose attempt is never counted up past 1.
MakeRequestForNotCounted(c) ==
    /\ pc[c] = "m_for"
    /\ attempt' = [attempt EXCEPT ![c] = 1]
    /\ pc' = [pc EXCEPT ![c] = "m_wait"]
    /\ ret' = ret
    /\ UNCHANGED <<clock, bucketVars, entry, waitVars, wake, histVars,
                   resp, delay, sendHist, searchVars>>

\* for attempt in range(1, max_attempts + 1): the next attempt, or the end of
\* the loop and the raise RatelimitException after it.
MakeRequestFor(c) ==
    /\ pc[c] = "m_for"
    /\ IF attempt[c] < max_attempts
       THEN /\ attempt' = [attempt EXCEPT ![c] = attempt[c] + 1]
            /\ pc' = [pc EXCEPT ![c] = "m_wait"]
            /\ ret' = ret
       ELSE /\ attempt' = attempt
            /\ SendRaises(c, RatelimitException)
    /\ UNCHANGED <<clock, bucketVars, entry, waitVars, wake, histVars,
                   resp, delay, sendHist, searchVars>>

\* MakeRequestWait that takes a token for the first attempt only.
MakeRequestWaitFirstOnly(c) ==
    /\ pc[c] = "m_wait"
    /\ pc' = [pc EXCEPT ![c] = IF attempt[c] = 1 THEN "w_now" ELSE "m_request"]
    /\ UNCHANGED <<clock, bucketVars, entry, waitVars, wake, histVars, upperVars>>

\* self._wait_for_token()
MakeRequestWait(c) ==
    /\ pc[c] = "m_wait"
    /\ pc' = [pc EXCEPT ![c] = "w_now"]
    /\ UNCHANGED <<clock, bucketVars, entry, waitVars, wake, histVars, upperVars>>

\* resp = self.client.request(method, url, **kwargs): the request goes out.
MakeRequestIssue(c) ==
    /\ pc[c] = "m_request"
    /\ nReq' = [nReq EXCEPT ![c] = nReq[c] + 1]
    /\ pc' = [pc EXCEPT ![c] = "m_inflight"]
    /\ UNCHANGED <<clock, bucketVars, entry, waitVars, wake, histVars, sendVars,
                   nAcq, nSleep, answers, searchVars>>

\* The transport answers or raises.
MakeRequestOutcome(c) ==
    /\ pc[c] = "m_inflight"
    /\ \E o \in Outcomes :
        /\ resp' = [resp EXCEPT ![c] = o]
        /\ answers' = [answers EXCEPT ![c] =
              answers[c] \cup {IF o.kind = "response" THEN o.status_code ELSE 0}]
        /\ pc' = [pc EXCEPT ![c] = IF o.kind = "exception" THEN "m_except" ELSE "m_status"]
    /\ UNCHANGED <<clock, bucketVars, entry, waitVars, wake, histVars,
                   attempt, delay, ret, nAcq, nReq, nSleep, searchVars>>

\* except Exception as ex: raise TimeoutException or DuckDuckGoSearchException
MakeRequestExcept(c) ==
    /\ pc[c] = "m_except"
    /\ SendRaises(c, TransportException(resp[c].msg))
    /\ UNCHANGED <<clock, bucketVars, entry, waitVars, wake, histVars,
                   attempt, resp, delay, sendHist, searchVars>>

\* The three tests on resp.status_code.
MakeRequestStatus(c) ==
    /\ pc[c] = "m_status"
    /\ IF IsSuccess(resp[c].status_code)
       THEN SendReturns(c, resp[c].content)
       ELSE IF IsRetryable(resp[c].status_code) /\ AttemptsRemain(attempt[c])
            THEN /\ pc' = [pc EXCEPT ![c] = "m_backoff"]
                 /\ ret' = ret
            ELSE SendRaises(c, StatusException(resp[c].status_code))
    /\ UNCHANGED <<clock, bucketVars, entry, waitVars, wake, histVars,
                   attempt, resp, delay, sendHist, searchVars>>

\* MakeRequestBackoff that asks for the delay of the first attempt every time.
MakeRequestBackoffFlat(c) ==
    /\ pc[c] = "m_backoff"
    /\ \E d \in CalculateBackoff(1) : delay' = [delay EXCEPT ![c] = d]
    /\ pc' = [pc EXCEPT ![c] = "m_sleep"]
    /\ UNCHANGED <<clock, bucketVars, entry, waitVars, wake, histVars,
                   attempt, resp, ret, sendHist, searchVars>>

\* delay = self._calculate_backoff(attempt)
MakeRequestBackoff(c) ==
    /\ pc[c] = "m_backoff"
    /\ \E d \in CalculateBackoff(attempt[c]) : delay' = [delay EXCEPT ![c] = d]
    /\ pc' = [pc EXCEPT ![c] = "m_sleep"]
    /\ UNCHANGED <<clock, bucketVars, entry, waitVars, wake, histVars,
                   attempt, resp, ret, sendHist, searchVars>>

\* sleep(delay)
MakeRequestSleep(c) ==
    /\ pc[c] = "m_sleep"
    /\ wake' = [wake EXCEPT ![c] = clock + SleepSeconds(delay[c])]
    /\ nSleep' = [nSleep EXCEPT ![c] = nSleep[c] + 1]
    /\ pc' = [pc EXCEPT ![c] = "m_asleep"]
    /\ UNCHANGED <<clock, bucketVars, entry, waitVars, histVars, sendVars,
                   nAcq, nReq, answers, searchVars>>

\* The sleep ends; continue
MakeRequestContinue(c) ==
    /\ pc[c] = "m_asleep"
    /\ clock >= wake[c]
    /\ wake' = [wake EXCEPT ![c] = 0]
    /\ delay' = [delay EXCEPT ![c] = 0]
    /\ pc' = [pc EXCEPT ![c] = "m_for"]
    /\ UNCHANGED <<clock, bucketVars, entry, waitVars, histVars, attempt, resp, ret,
                   sendHist, searchVars>>

\* ----------------------------------------------------------------- parsers

\* duck_search.utils._normalize: the text without its blank runs.
Normalize(text) == SelectSeq(text, LAMBDA w : w # " ")

\* duck_search.utils._normalize_url: the link without its tracking parameters.
NormalizeUrl(h) == [h EXCEPT !.utm = FALSE]

\* not href
NoLink(h) == h.path = ""

\* IsAd that knows the first prefix only.
IsAdGoogleOnly(h) == h.ad = "google"

\* href.startswith(("http://www.google.com/search?q=",
\*                  "https://duckduckgo.com/y.js?ad_domain"))
IsAd(h) == h.ad \in {"google", "ddg"}

\* HtmlParser._extract_result: <<>> for {}, <<r>> for the result r
HtmlExtractResult(el) ==
    IF NoLink(el.href) \/ IsAd(el.href)
    THEN <<>>
    ELSE <<[title |-> Normalize(el.title),
            href |-> NormalizeUrl(el.href),
            body |-> Normalize(el.text)]>>

\* HtmlParser._extract_results, from element i on
RECURSIVE HtmlExtractResults(_, _, _, _)
HtmlExtractResults(els, i, sn, rs) ==
    IF i > Len(els)
    THEN [results |-> rs, seen |-> sn]
    ELSE LET r == HtmlExtractResult(els[i])
         IN  IF r # <<>> /\ r[1].href \notin sn
             THEN HtmlExtractResults(els, i + 1, sn \cup {r[1].href}, Append(rs, r[1]))
             ELSE HtmlExtractResults(els, i + 1, sn, rs)

\* LiteExtractResults that skips two rows, not three, after a rejected link row.
RECURSIVE LiteExtractResultsShortSkip(_, _, _, _)
LiteExtractResultsShortSkip(rows, i, sn, rs) ==
    IF i > Len(rows)
    THEN [results |-> rs, seen |-> sn]
    ELSE LET href == rows[i].href
         IN  IF NoLink(href) \/ href \in sn \/ IsAd(href)
             THEN LiteExtractResultsShortSkip(rows, i + 3, sn, rs)
             ELSE IF i + 1 > Len(rows)
                  THEN [results |-> rs, seen |-> sn \cup {href}]
                  ELSE LiteExtractResultsShortSkip(rows, i + 4, sn \cup {href},
                          Append(rs, [title |-> Normalize(rows[i].title),
                                      href |-> NormalizeUrl(href),
                                      body |-> Normalize(rows[i + 1].snippet)]))

\* LiteParser._extract_results, with the iterator data at row i
RECURSIVE LiteExtractResults(_, _, _, _)
LiteExtractResults(rows, i, sn, rs) ==
    IF i > Len(rows)
    THEN [results |-> rs, seen |-> sn]
    ELSE LET href == rows[i].href
         IN  IF NoLink(href) \/ href \in sn \/ IsAd(href)
             THEN LiteExtractResults(rows, i + 4, sn, rs)
             ELSE IF i + 1 > Len(rows)
                  THEN [results |-> rs, seen |-> sn \cup {href}]
                  ELSE LiteExtractResults(rows, i + 4, sn \cup {href},
                          Append(rs, [title |-> Normalize(rows[i].title),
                                      href |-> NormalizeUrl(href),
                                      body |-> Normalize(rows[i + 1].snippet)]))

\* parser_cls.no_results(content)
NoResults(b, content) ==
    IF b = "html" THEN content.no_results_html ELSE content.no_more_lite

\* parse() that works on a copy of seen and leaves the caller's set as it was.
ParseOnCopy(b, content, sn) ==
    [results |-> (IF b = "html"
                  THEN HtmlExtractResults(content.divs, 1, sn, <<>>)
                  ELSE LiteExtractResults(content.rows, 1, sn, <<>>)).results,
     seen |-> sn]

\* parse() that gives up the page at the first entry without a link.
ParseStopsAtNoLink(b, content, sn) ==
    LET n == IF b = "html" THEN Len(content.divs) ELSE (Len(content.rows) + 3) \div 4
        link(k) == IF b = "html" THEN content.divs[k].href
                                 ELSE content.rows[4 * k - 3].href
        bad == {k \in 1 .. n : link(k).path = ""}
        stop == IF bad = {} THEN n + 1 ELSE CHOOSE k \in bad : \A j \in bad : k <= j
    IN  IF b = "html"
        THEN HtmlExtractResults(SubSeq(content.divs, 1, stop - 1), 1, sn, <<>>)
        ELSE LiteExtractResults(SubSeq(content.rows, 1, Min(4 * (stop - 1), Len(content.rows))),
                                1, sn, <<>>)

\* parser_cls.parse(content, seen): the page's results and seen as the call leaves it
Parse(b, content, sn) ==
    IF b = "html"
    THEN HtmlExtractResults(content.divs, 1, sn, <<>>)
    ELSE LiteExtractResults(content.rows, 1, sn, <<>>)

\* dict(zip(names, values))
RECURSIVE ZipDict(_, _, _)
ZipDict(names, values, i) ==
    IF i > Min(Len(names), Len(values))
    THEN <<>>
    ELSE LET rest == ZipDict(names, values, i + 1)
         IN  IF \E j \in 1 .. Len(rest) : rest[j][1] = names[i]
             THEN rest
             ELSE <<<<names[i], values[i]>>>> \o rest

\* HtmlParser.next_payload: <<>> for None, else the pairs of the dict
HtmlNextPayload(content) ==
    IF content.nav = <<>>
    THEN <<>>
    ELSE LET next_page == content.nav[Len(content.nav)]
         IN  IF next_page.names # <<>> /\ next_page.values # <<>>
             THEN ZipDict(next_page.names, next_page.values, 1)
             ELSE <<>>

\* LiteParser.next_payload: <<>> for None, else the pairs of the dict
LiteNextPayload(content) ==
    IF content.next_s # <<>> THEN <<<<"s", content.next_s[1]>>>> ELSE <<>>

\* parser_cls.next_payload(content)
NextPayload(b, content) ==
    IF b = "html" THEN HtmlNextPayload(content) ELSE LiteNextPayload(content)

\* ------------------------------------------------------------------- text

\* The arguments the callers pass to text().
BackendArgs == {"auto", "html", "lite", "api", "bing"}
MaxResultsArgs == {<<>>, <<-1>>, <<0>>, <<2>>, <<3>>}
TimelimitArgs == {<<>>, <<"d">>}

\* _build_payload(keywords, region, timelimit), as the pairs of the dict
BuildPayload(keywords, region, tl) ==
    <<<<"q", keywords>>, <<"s", "0">>, <<"o", "json">>, <<"api", "d.js">>,
      <<"vqd", "">>, <<"kl", region>>, <<"bing_market", region>>>>
        \o (IF tl # <<>> THEN <<<<"df", tl[1]>>>> ELSE <<>>)

\* The orders random.shuffle may leave a list of at most two backends in.
Shuffles(list) ==
    IF Len(list) = 2 THEN {list, <<list[2], list[1]>>} ELSE {list}

\* raise DuckDuckGoSearchException(last_err)
SearchException(err) ==
    [cls |-> "DuckDuckGoSearchException", fmt |-> "", cause |-> err]

\* max_results and len(results) >= max_results
LimitReached(mr, rs) == mr # <<>> /\ mr[1] # 0 /\ Len(rs) >= mr[1]

\* results[:max_results + 1]
TruncateOneMore(rs, n) ==
    SubSeq(rs, 1, IF n + 1 >= 0 THEN Min(n + 1, Len(rs))
                  ELSE IF Len(rs) + n + 1 > 0 THEN Len(rs) + n + 1 ELSE 0)

\* results[:max_results]
Truncate(rs, n) ==
    SubSeq(rs, 1, IF n >= 0 THEN Min(n, Len(rs))
                  ELSE IF Len(rs) + n > 0 THEN Len(rs) + n ELSE 0)

\* text() returns value v to its caller.
TextReturns(c, v) ==
    /\ result' = [result EXCEPT ![c] = [kind |-> "return", value |-> v]]
    /\ pc' = [pc EXCEPT ![c] = "done"]

\* A caller calls text().
CallText(c) ==
    /\ pc[c] = "idle"
    /\ calls < MaxSearches
    /\ calls' = calls + 1
    /\ \E b \in BackendArgs, mr \in MaxResultsArgs, tl \in TimelimitArgs :
        /\ backend' = [backend EXCEPT ![c] = b]
        /\ max_results' = [max_results EXCEPT ![c] = mr]
        /\ timelimit' = [timelimit EXCEPT ![c] = tl]
    /\ pc' = [pc EXCEPT ![c] = "t_start"]
    /\ entry' = [entry EXCEPT ![c] = "search"]
    /\ UNCHANGED <<clock, bucketVars, waitVars, wake, sendVars, sendHist,
                   granted, nret, lastRet, lastStamp,
                   backends, bi, last_err, result, pageVars, searchHist>>

\* TextStart that lists both backends whatever backend was asked for.
TextStartAlwaysBoth(c) ==
    /\ pc[c] = "t_start"
    /\ LET b == IF backend[c] \in {"api", "ecosia"} THEN "auto" ELSE backend[c]
       IN  /\ backend' = [backend EXCEPT ![c] = b]
           /\ \E order \in Shuffles(IF b \in {"auto", "html", "lite"}
                                    THEN <<"html", "lite">> ELSE <<b>>) :
                 backends' = [backends EXCEPT ![c] = order]
    /\ last_err' = [last_err EXCEPT ![c] = <<>>]
    /\ bi' = [bi EXCEPT ![c] = 0]
    /\ pc' = [pc EXCEPT ![c] = "t_for"]
    /\ UNCHANGED <<clock, bucketVars, entry, waitVars, wake, histVars, sendVars,
                   sendHist, max_results, timelimit, result, pageVars, searchHist>>

\* The deprecated names become "auto"; backends is built and shuffled.
TextStart(c) ==
    /\ pc[c] = "t_start"
    /\ LET b == IF backend[c] \in {"api", "ecosia"} THEN "auto" ELSE backend[c]
       IN  /\ backend' = [backend EXCEPT ![c] = b]
           /\ \E order \in Shuffles(IF b = "auto" THEN <<"html", "lite">> ELSE <<b>>) :
                 backends' = [backends EXCEPT ![c] = order]
    /\ last_err' = [last_err EXCEPT ![c] = <<>>]
    /\ bi' = [bi EXCEPT ![c] = 0]
    /\ pc' = [pc EXCEPT ![c] = "t_for"]
    /\ UNCHANGED <<clock, bucketVars, entry, waitVars, wake, histVars, sendVars,
                   sendHist, max_results, timelimit, result, pageVars, searchHist>>

\* for b in backends: the next backend, or the end of the loop and the
\* raise DuckDuckGoSearchException(last_err) after it.
TextFor(c) ==
    /\ pc[c] = "t_for"
    /\ IF bi[c] < Len(backends[c])
       THEN /\ bi' = [bi EXCEPT ![c] = bi[c] + 1]
            /\ pc' = [pc EXCEPT ![c] = "t_try"]
            /\ result' = result
       ELSE /\ bi' = bi
            /\ result' = [result EXCEPT ![c] =
                  [kind |-> "raise", exc |-> SearchException(last_err[c])]]
            /\ pc' = [pc EXCEPT ![c] = "done"]
    /\ UNCHANGED <<clock, bucketVars, entry, waitVars, wake, histVars, sendVars,
                   sendHist, backend, max_results, timelimit, backends, last_err,
                   pageVars, searchHist>>

\* TextTry whose pagination loop goes on with the results list of the loop before.
TextTryKeepsResults(c) ==
    /\ pc[c] = "t_try"
    /\ IF backends[c][bi[c]] \in {"html", "lite"}
       THEN /\ payload' = [payload EXCEPT ![c] = BuildPayload("kw", "wt-wt", timelimit[c])]
            /\ results' = results
            /\ seen' = [seen EXCEPT ![c] = {}]
            /\ tried' = [tried EXCEPT ![c] = Append(tried[c], backends[c][bi[c]])]
            /\ pages' = [pages EXCEPT ![c] = Append(pages[c], <<>>)]
            /\ nPages' = [nPages EXCEPT ![c] = 0]
            /\ pc' = [pc EXCEPT ![c] = "p_request"]
       ELSE /\ UNCHANGED <<payload, results, seen, tried, pages, nPages>>
            /\ pc' = [pc EXCEPT ![c] = "t_for"]
    /\ UNCHANGED <<clock, bucketVars, entry, waitVars, wake, histVars, sendVars,
                   sendHist, textVars, nFailed, errors>>

\* TextTry whose pagination loop goes on with the seen set of the loop before.
TextTryKeepsSeen(c) ==
    /\ pc[c] = "t_try"
    /\ IF backends[c][bi[c]] \in {"html", "lite"}
       THEN /\ payload' = [payload EXCEPT ![c] = BuildPayload("kw", "wt-wt", timelimit[c])]
            /\ results' = [results EXCEPT ![c] = <<>>]
            /\ seen' = seen
            /\ tried' = [tried EXCEPT ![c] = Append(tried[c], backends[c][bi[c]])]
            /\ pages' = [pages EXCEPT ![c] = Append(pages[c], <<>>)]
            /\ nPages' = [nPages EXCEPT ![c] = 0]
            /\ pc' = [pc EXCEPT ![c] = "p_request"]
       ELSE /\ UNCHANGED <<payload, results, seen, tried, pages, nPages>>
            /\ pc' = [pc EXCEPT ![c] = "t_for"]
    /\ UNCHANGED <<clock, bucketVars, entry, waitVars, wake, histVars, sendVars,
                   sendHist, textVars, nFailed, errors>>

\* TextTry that takes any other name for a parser to run.
TextTryDefaultsToHtml(c) ==
    /\ pc[c] = "t_try"
    /\ payload' = [payload EXCEPT ![c] = BuildPayload("kw", "wt-wt", timelimit[c])]
    /\ results' = [results EXCEPT ![c] = <<>>]
    /\ seen' = [seen EXCEPT ![c] = {}]
    /\ tried' = [tried EXCEPT ![c] = Append(tried[c], backends[c][bi[c]])]
    /\ pages' = [pages EXCEPT ![c] = Append(pages[c], <<>>)]
    /\ nPages' = [nPages EXCEPT ![c] = 0]
    /\ pc' = [pc EXCEPT ![c] = "p_request"]
    /\ UNCHANGED <<clock, bucketVars, entry, waitVars, wake, histVars, sendVars,
                   sendHist, textVars, nFailed, errors>>

\* if b == "html": ... elif b == "lite": ...: _search_paginated is called and
\* sets up payload, results and seen; any other b leaves the try at once.
TextTry(c) ==
    /\ pc[c] = "t_try"
    /\ IF backends[c][bi[c]] \in {"html", "lite"}
       THEN /\ payload' = [payload EXCEPT ![c] = BuildPayload("kw", "wt-wt", timelimit[c])]
            /\ results' = [results EXCEPT ![c] = <<>>]
            /\ seen' = [seen EXCEPT ![c] = {}]
            /\ tried' = [tried EXCEPT ![c] = Append(tried[c], backends[c][bi[c]])]
            /\ pages' = [pages EXCEPT ![c] = Append(pages[c], <<>>)]
            /\ nPages' = [nPages EXCEPT ![c] = 0]
            /\ pc' = [pc EXCEPT ![c] = "p_request"]
       ELSE /\ UNCHANGED <<payload, results, seen, tried, pages, nPages>>
            /\ pc' = [pc EXCEPT ![c] = "t_for"]
    /\ UNCHANGED <<clock, bucketVars, entry, waitVars, wake, histVars, sendVars,
                   sendHist, textVars, nFailed, errors>>

\* TextExcept that gives up at the first backend's error.
TextExceptNoFallback(c) ==
    /\ pc[c] = "t_except"
    /\ last_err' = [last_err EXCEPT ![c] = <<ret[c].exc>>]
    /\ nFailed' = [nFailed EXCEPT ![c] = nFailed[c] + 1]
    /\ errors' = [errors EXCEPT ![c] = Append(errors[c], ret[c].exc)]
    /\ result' = [result EXCEPT ![c] =
          [kind |-> "raise", exc |-> SearchException(<<ret[c].exc>>)]]
    /\ pc' = [pc EXCEPT ![c] = "done"]
    /\ UNCHANGED <<clock, bucketVars, entry, waitVars, wake, histVars, sendVars,
                   sendHist, backend, max_results, timelimit, backends, bi,
                   pageVars, tried, pages, nPages>>

\* TextExcept that keeps the first error it was handed.
TextExceptKeepsFirst(c) ==
    /\ pc[c] = "t_except"
    /\ last_err' = [last_err EXCEPT ![c] =
          IF last_err[c] = <<>> THEN <<ret[c].exc>> ELSE last_err[c]]
    /\ nFailed' = [nFailed EXCEPT ![c] = nFailed[c] + 1]
    /\ errors' = [errors EXCEPT ![c] = Append(errors[c], ret[c].exc)]
    /\ pc' = [pc EXCEPT ![c] = "t_for"]
    /\ UNCHANGED <<clock, bucketVars, entry, waitVars, wake, histVars, sendVars,
                   sendHist, backend, max_results, timelimit, backends, bi, result,
                   pageVars, tried, pages, nPages>>

\* except Exception as ex: last_err = ex
TextExcept(c) ==
    /\ pc[c] = "t_except"
    /\ last_err' = [last_err EXCEPT ![c] = <<ret[c].exc>>]
    /\ nFailed' = [nFailed EXCEPT ![c] = nFailed[c] + 1]
    /\ errors' = [errors EXCEPT ![c] = Append(errors[c], ret[c].exc)]
    /\ pc' = [pc EXCEPT ![c] = "t_for"]
    /\ UNCHANGED <<clock, bucketVars, entry, waitVars, wake, histVars, sendVars,
                   sendHist, backend, max_results, timelimit, backends, bi, result,
                   pageVars, tried, pages, nPages>>

Text(c) ==
    \/ TextStart(c)
    \/ TextFor(c)
    \/ TextTry(c)
    \/ TextExcept(c)

\* -------------------------------------------------------- _search_paginated

\* content = self._make_request("POST", parser_cls.endpoint, data=payload)
PaginatedRequest(c) ==
    /\ pc[c] = "p_request"
    /\ attempt' = [attempt EXCEPT ![c] = 0]
    /\ resp' = [resp EXCEPT ![c] = NoResp]
    /\ delay' = [delay EXCEPT ![c] = 0]
    /\ ret' = [ret EXCEPT ![c] = NoRet]
    /\ nAcq' = [nAcq EXCEPT ![c] = 0]
    /\ nReq' = [nReq EXCEPT ![c] = 0]
    /\ nSleep' = [nSleep EXCEPT ![c] = 0]
    /\ answers' = [answers EXCEPT ![c] = {}]
    /\ nPages' = [nPages EXCEPT ![c] = nPages[c] + 1]
    /\ pc' = [pc EXCEPT ![c] = "m_for"]
    /\ UNCHANGED <<clock, bucketVars, entry, waitVars, wake, histVars, textVars,
                   pageVars, tried, nFailed, pages, errors>>

\* PaginatedExhausted that goes on to parse the page whatever it carries.
PaginatedExhaustedIgnored(c) ==
    /\ pc[c] = "p_exhausted"
    /\ pc' = [pc EXCEPT ![c] = "p_parse"]
    /\ result' = result
    /\ pages' = [pages EXCEPT ![c][Len(pages[c])] = Append(@, ret[c].body)]
    /\ UNCHANGED <<clock, bucketVars, entry, waitVars, wake, histVars, sendVars,
                   sendHist, backend, max_results, timelimit, backends, bi, last_err,
                   pageVars, tried, nFailed, errors, nPages>>

\* if parser_cls.no_results(content): break, and return results
PaginatedExhausted(c) ==
    /\ pc[c] = "p_exhausted"
    /\ IF NoResults(backends[c][bi[c]], ret[c].body)
       THEN TextReturns(c, results[c])
       ELSE /\ pc' = [pc EXCEPT ![c] = "p_parse"]
            /\ result' = result
    /\ pages' = [pages EXCEPT ![c][Len(pages[c])] = Append(@, ret[c].body)]
    /\ UNCHANGED <<clock, bucketVars, entry, waitVars, wake, histVars, sendVars,
                   sendHist, backend, max_results, timelimit, backends, bi, last_err,
                   pageVars, tried, nFailed, errors, nPages>>

\* page_results = parser_cls.parse(content, seen); results.extend(page_results)
PaginatedParse(c) ==
    /\ pc[c] = "p_parse"
    /\ LET parsed == Parse(backends[c][bi[c]], ret[c].body, seen[c])
       IN  /\ results' = [results EXCEPT ![c] = results[c] \o parsed.results]
           /\ seen' = [seen EXCEPT ![c] = parsed.seen]
    /\ pc' = [pc EXCEPT ![c] = "p_limit"]
    /\ UNCHANGED <<clock, bucketVars, entry, waitVars, wake, histVars, sendVars,
                   sendHist, textVars, payload, searchHist>>

\* if max_results and len(results) >= max_results: return results[:max_results]
PaginatedLimit(c) ==
    /\ pc[c] = "p_limit"
    /\ IF LimitReached(max_results[c], results[c])
       THEN TextReturns(c, Truncate(results[c], max_results[c][1]))
       ELSE /\ pc' = [pc EXCEPT ![c] = "p_next"]
            /\ result' = result
    /\ UNCHANGED <<clock, bucketVars, entry, waitVars, wake, histVars, sendVars,
                   sendHist, backend, max_results, timelimit, backends, bi, last_err,
                   pageVars, searchHist>>

\* PaginatedNext that asks again with the payload it has when the page gives none.
PaginatedNextNeverStops(c) ==
    /\ pc[c] = "p_next"
    /\ LET next_payload == NextPayload(backends[c][bi[c]], ret[c].body)
       IN  payload' = [payload EXCEPT ![c] =
                          IF next_payload = <<>> THEN payload[c] ELSE next_payload]
    /\ pc' = [pc EXCEPT ![c] = "p_request"]
    /\ result' = result
    /\ UNCHANGED <<clock, bucketVars, entry, waitVars, wake, histVars, sendVars,
                   sendHist, backend, max_results, timelimit, backends, bi, last_err,
                   results, seen, searchHist>>

\* PaginatedNext that updates the payload it has with the page's parameters.
PaginatedNextUpdates(c) ==
    /\ pc[c] = "p_next"
    /\ LET next_payload == NextPayload(backends[c][bi[c]], ret[c].body)
           kept == SelectSeq(payload[c],
                       LAMBDA kv : \A i \in 1 .. Len(next_payload) : next_payload[i][1] # kv[1])
       IN  IF next_payload = <<>>
           THEN /\ TextReturns(c, results[c])
                /\ payload' = payload
           ELSE /\ payload' = [payload EXCEPT ![c] = kept \o next_payload]
                /\ pc' = [pc EXCEPT ![c] = "p_request"]
                /\ result' = result
    /\ UNCHANGED <<clock, bucketVars, entry, waitVars, wake, histVars, sendVars,
                   sendHist, backend, max_results, timelimit, backends, bi, last_err,
                   results, seen, searchHist>>

\* next_payload = parser_cls.next_payload(content); if not next_payload: break,
\* and return results; else payload = next_payload
PaginatedNext(c) ==
    /\ pc[c] = "p_next"
    /\ LET next_payload == NextPayload(backends[c][bi[c]], ret[c].body)
       IN  IF next_payload = <<>>
           THEN /\ TextReturns(c, results[c])
                /\ payload' = payload
           ELSE /\ payload' = [payload EXCEPT ![c] = next_payload]
                /\ pc' = [pc EXCEPT ![c] = "p_request"]
                /\ result' = result
    /\ UNCHANGED <<clock, bucketVars, entry, waitVars, wake, histVars, sendVars,
                   sendHist, backend, max_results, timelimit, backends, bi, last_err,
                   results, seen, searchHist>>

SearchPaginated(c) ==
    \/ PaginatedRequest(c)
    \/ PaginatedExhausted(c)
    \/ PaginatedParse(c)
    \/ PaginatedLimit(c)
    \/ PaginatedNext(c)

\* The caller has its answer and is ready for another call.
Finish(c) ==
    /\ pc[c] = "done"
    /\ pc' = [pc EXCEPT ![c] = "idle"]
    /\ entry' = [entry EXCEPT ![c] = "none"]
    /\ attempt' = [attempt EXCEPT ![c] = 0]
    /\ resp' = [resp EXCEPT ![c] = NoResp]
    /\ delay' = [delay EXCEPT ![c] = 0]
    /\ ret' = [ret EXCEPT ![c] = NoRet]
    /\ nAcq' = [nAcq EXCEPT ![c] = 0]
    /\ nReq' = [nReq EXCEPT ![c] = 0]
    /\ nSleep' = [nSleep EXCEPT ![c] = 0]
    /\ answers' = [answers EXCEPT ![c] = {}]
    /\ wake' = [wake EXCEPT ![c] = 0]
    /\ backend' = [backend EXCEPT ![c] = ""]
    /\ max_results' = [max_results EXCEPT ![c] = <<>>]
    /\ timelimit' = [timelimit EXCEPT ![c] = <<>>]
    /\ backends' = [backends EXCEPT ![c] = <<>>]
    /\ bi' = [bi EXCEPT ![c] = 0]
    /\ last_err' = [last_err EXCEPT ![c] = <<>>]
    /\ payload' = [payload EXCEPT ![c] = <<>>]
    /\ results' = [results EXCEPT ![c] = <<>>]
    /\ seen' = [seen EXCEPT ![c] = {}]
    /\ result' = [result EXCEPT ![c] = NoRet]
    /\ tried' = [tried EXCEPT ![c] = <<>>]
    /\ nFailed' = [nFailed EXCEPT ![c] = 0]
    /\ pages' = [pages EXCEPT ![c] = <<>>]
    /\ errors' = [errors EXCEPT ![c] = <<>>]
    /\ nPages' = [nPages EXCEPT ![c] = 0]
    /\ UNCHANGED <<clock, bucketVars, waitVars, histVars>>

MakeRequest(c) ==
    \/ MakeRequestFor(c)
    \/ MakeRequestWait(c)
    \/ MakeRequestIssue(c)
    \/ MakeRequestOutcome(c)
    \/ MakeRequestExcept(c)
    \/ MakeRequestStatus(c)
    \/ MakeRequestBackoff(c)
    \/ MakeRequestSleep(c)
    \/ MakeRequestContinue(c)

\* ------------------------------------------------- calls on the parts alone

\* The links a page handed to parse() may hold.
ParseLinks ==
    {Href("a", FALSE), Href("a", TRUE), Href("b", FALSE), NoHref,
     AdHref("google"), AdHref("ddg")}

\* The lists of at most three of them.
ParseLinkLists ==
    {<<>>} \cup {<<x>> : x \in ParseLinks}
        \cup {<<x, y>> : x, y \in ParseLinks}
        \cup {<<x, y, z>> : x, y, z \in ParseLinks}

\* The page with the links ls, one <div> or one group of four rows for each,
\* each with a title of its own; cut rows are missing at the end of the table.
ParsePage(ls, cut) ==
    LET n == IF 4 * Len(ls) > cut THEN 4 * Len(ls) - cut ELSE 0
        title == <<"T1", "T2", "T3">>
    IN  [no_results_html |-> FALSE, no_more_lite |-> FALSE,
         divs |-> [k \in 1 .. Len(ls) |-> Div(ls[k], title[k])],
         rows |-> [k \in 1 .. n |->
                     LET g == ((k - 1) \div 4) + 1
                     IN  Group(ls[g], title[g])[((k - 1) % 4) + 1]],
         nav |-> <<>>,
         next_s |-> <<>>]

\* The pages and the seen sets parse() is called with.
ParsePages == {ParsePage(ls, cut) : ls \in ParseLinkLists, cut \in {0, 3}}
ParseSeens == SUBSET {Href("a", FALSE), Href("a", TRUE)}

\* A caller calls parser_cls.parse(content, seen) on a page and a set of its own.
CallParse(c) ==
    /\ pc[c] = "idle"
    /\ calls < MaxCalls
    /\ calls' = calls + 1
    /\ \E b \in {"html", "lite"}, content \in ParsePages, sn \in ParseSeens :
          /\ backends' = [backends EXCEPT ![c] = <<b>>]
          /\ ret' = [ret EXCEPT ![c] = [kind |-> "return", body |-> content]]
          /\ seen' = [seen EXCEPT ![c] = sn]
    /\ bi' = [bi EXCEPT ![c] = 1]
    /\ pc' = [pc EXCEPT ![c] = "p_parse"]
    /\ entry' = [entry EXCEPT ![c] = "parse"]
    /\ UNCHANGED <<clock, bucketVars, waitVars, wake, granted, nret, lastRet,
                   lastStamp, attempt, resp, delay, sendHist, backend, max_results,
                   timelimit, last_err, result, payload, results, searchHist>>

\* The caller calls parse() again, with the same page and the same set.
ParseAgain(c) ==
    /\ entry[c] = "parse"
    /\ pc[c] = "p_limit"
    /\ LET parsed == Parse(backends[c][bi[c]], ret[c].body, seen[c])
       IN  /\ result' = [result EXCEPT ![c] = [kind |-> "return", value |-> parsed.results]]
           /\ seen' = [seen EXCEPT ![c] = parsed.seen]
    /\ pc' = [pc EXCEPT ![c] = "done"]
    /\ UNCHANGED <<clock, bucketVars, entry, waitVars, wake, histVars, sendVars,
                   sendHist, backend, max_results, timelimit, backends, bi, last_err,
                   payload, results, searchHist>>

\* A caller calls _calculate_backoff(attempt) and keeps what it returns.
CallBackoff(c) ==
    /\ pc[c] = "idle"
    /\ \E a \in 1 .. max_attempts :
          /\ attempt' = [attempt EXCEPT ![c] = a]
          /\ \E d \in CalculateBackoff(a) : delay' = [delay EXCEPT ![c] = d]
    /\ entry' = [entry EXCEPT ![c] = "backoff"]
    /\ UNCHANGED <<clock, bucketVars, pc, waitVars, wake, histVars, resp, ret,
                   sendHist, searchVars>>

\* ---------------------------------------------------------- specifications

\* One caller makes _wait_for_token() calls one at a time.
NextAcquire ==
    \/ Tick
    \/ CallAcquire("c1")
    \/ WaitForToken("c1")

SpecAcquire == Init /\ [][NextAcquire]_vars

\* Two callers make _wait_for_token() calls on the shared client.
NextConcurrent ==
    \/ Elapse
    \/ \E c \in Callers : CallAcquire(c) \/ WaitForToken(c)

SpecConcurrent == Init /\ [][NextConcurrent]_vars

\* One caller makes _make_request() calls one at a time.
NextSend ==
    \/ Elapse
    \/ CallSend("c1")
    \/ WaitForToken("c1")
    \/ MakeRequest("c1")
    \/ Finish("c1")

SpecSend == Init /\ [][NextSend]_vars

\* The same, with a clock that lets a call run to its end, and a caller that
\* keeps running.
NextSendFair ==
    \/ ElapseSend
    \/ CallSend("c1")
    \/ WaitForToken("c1")
    \/ MakeRequest("c1")
    \/ Finish("c1")

SpecSendFair == Init /\ [][NextSendFair]_vars /\ WF_vars(NextSendFair)

\* One caller makes text() calls one at a time.
\* parse() called twice on one page, by one caller.
NextParse ==
    \/ CallParse("c1")
    \/ PaginatedParse("c1")
    \/ ParseAgain("c1")
    \/ Finish("c1")

SpecParse == Init /\ [][NextParse]_vars

\* _calculate_backoff called by the callers, for any attempt number.
NextBackoff == \E c \in Callers : CallBackoff(c)

SpecBackoff == Init /\ [][NextBackoff]_vars

Next ==
    \/ Elapse
    \/ CallText("c1")
    \/ WaitForToken("c1")
    \/ MakeRequest("c1")
    \/ SearchPaginated("c1")
    \/ Text("c1")
    \/ Finish("c1")

Spec == Init /\ [][Next]_vars


\* ------------------------------------------------------------------ claims

\* The step is caller c returning from a _wait_for_token() call it made itself.
AcquireReturns(c) == pc[c] = "w_return" /\ pc'[c] = "idle"

\* 1 / refill_rate, in seconds
RefillPeriod == OneToken \div refill_rate

\* C1: with _wait_for_token() calls made one at a time, 0 <= tokens <= capacity
\* whenever no call is running, tokens rises only by the refill to
\* min(capacity, tokens + elapsed * refill_rate), and falls only by the debit of
\* exactly one token, made after the refill and stamp of the same pass.
C1_Range == pc["c1"] = "idle" => (0 <= tokens /\ tokens <= bucket_capacity)

C1_Step ==
    /\ tokens' > tokens =>
          /\ pc["c1"] = "w_refill"
          /\ tokens' = Min(bucket_capacity,
                           tokens + (now["c1"] - token_last_refill) * refill_rate)
    /\ tokens' < tokens =>
          /\ pc["c1"] = "w_store"
          /\ token_last_refill = now["c1"]
          /\ tokens >= OneToken
          /\ tokens' = tokens - OneToken

C1_TokenBucket == [](C1_Range) /\ [][C1_Step]_vars

\* Two calls have returned, the second after waiting for its token.
C1_Witness == nret = 2 /\ pc["c1"] = "idle" /\ tokens = 0 /\ token_last_refill >= RefillPeriod

\* C2: with concurrent callers, tokens never drops below 0 and the tokens
\* handed out never exceed the one token of the full bucket plus what the
\* elapsed time has refilled.
C2_Safe ==
    /\ tokens >= 0
    /\ granted * OneToken <= bucket_capacity + clock * refill_rate

\* C3 as stated: a call returns at least 1/refill_rate after the return of the
\* call before it.
C3_Original ==
    [][\A c \in Callers : (AcquireReturns(c) /\ nret >= 1) =>
            clock - lastRet >= RefillPeriod]_vars

\* C3, amended: a call returns at least 1/refill_rate after the clock reading
\* at which the call before it took its token.
C3_Spacing ==
    [][\A c \in Callers : (AcquireReturns(c) /\ nret >= 1) =>
            clock - lastStamp >= RefillPeriod]_vars

\* A second call has returned, later than the clock reading of its own pass.
C3_Witness == nret = 2 /\ pc["c1"] = "idle" /\ lastRet > lastStamp

\* C4: in _make_request, a transport request is about to go out exactly when
\* one more _wait_for_token() call has completed than requests have gone out;
\* everywhere else the two counts are equal, and equal to the attempts begun.
C4_AcquirePerRequest ==
    \A c \in Callers : entry[c] = "send" =>
        /\ pc[c] = "m_request" => nAcq[c] = nReq[c] + 1
        /\ pc[c] # "m_request" => nAcq[c] = nReq[c]
        /\ pc[c] \notin {"m_for", "idle"} => nAcq[c] \in {attempt[c] - 1, attempt[c]}
        /\ pc[c] = "done" => nAcq[c] = nReq[c] /\ nReq[c] >= 1

\* A send has ended after three requests.
C4_Witness == entry["c1"] = "send" /\ pc["c1"] = "done" /\ nReq["c1"] = 3 /\ nAcq["c1"] = 3

\* C5: a _make_request whose every answer had a retryable status ends with an
\* error after exactly 5 transport requests.
C5_ExactlyFive ==
    \A c \in Callers :
        (entry[c] = "send" /\ pc[c] = "done" /\ answers[c] \subseteq {202, 301, 403}) =>
            /\ ret[c].kind = "raise"
            /\ nReq[c] = 5

\* A send answered 403 every time has ended.
C5_Witness ==
    entry["c1"] = "send" /\ pc["c1"] = "done" /\ answers["c1"] = {403} /\ nReq["c1"] = 5

\* C6: a _make_request that used all max_attempts attempts on retryable
\* statuses raises RatelimitException.
C6_RateLimitExceeded ==
    \A c \in Callers :
        (entry[c] = "send" /\ pc[c] = "done" /\ nReq[c] = max_attempts
            /\ answers[c] \subseteq {202, 301, 403}) =>
            /\ ret[c].kind = "raise"
            /\ ret[c].exc.cls = "RatelimitException"

\* C7: once the transport has answered 200, the call is either classifying that
\* answer or has returned its body; it is in no later request, acquire or sleep.
C7_SuccessEnds ==
    \A c \in Callers :
        (entry[c] = "send" /\ resp[c].kind = "response" /\ resp[c].status_code = 200) =>
            \/ pc[c] = "m_status"
            \/ /\ pc[c] = "done"
               /\ ret[c] = [kind |-> "return", body |-> resp[c].content]
               /\ nSleep[c] = nReq[c] - 1

\* A send has returned the body of a 200 that came after retryable answers.
C7_Witness ==
    /\ entry["c1"] = "send" /\ pc["c1"] = "done" /\ ret["c1"].kind = "return"
    /\ nReq["c1"] = 3 /\ answers["c1"] = {200, 403}

\* C8: once the transport has answered a status other than 200, 202, 301, 403,
\* the call is either classifying that answer or has raised
\* DuckDuckGoSearchException("... returned status ..."), at every attempt
\* number, with no sleep and no request after it.
C8_OtherStatusRaises ==
    \A c \in Callers :
        (entry[c] = "send" /\ resp[c].kind = "response"
            /\ resp[c].status_code \notin {200, 202, 301, 403}) =>
            \/ pc[c] = "m_status"
            \/ /\ pc[c] = "done"
               /\ ret[c].kind = "raise"
               /\ ret[c].exc.cls = "DuckDuckGoSearchException"
               /\ ret[c].exc.fmt = "%s returned status %s."
               /\ ret[c].exc.cause = resp[c].status_code
               /\ nReq[c] = attempt[c]
               /\ nSleep[c] = nReq[c] - 1

\* A send has raised on a 500 received at its fifth attempt.
C8_Witness ==
    /\ entry["c1"] = "send" /\ pc["c1"] = "done" /\ ret["c1"].kind = "raise"
    /\ resp["c1"].kind = "response" /\ resp["c1"].status_code = 500 /\ attempt["c1"] = 5

\* The transport messages that tell of a timeout.
TimeoutMessages == {MsgTimedOut, MsgTimeout}

\* C9: once the transport has raised, the call is either in its except clause
\* or has raised, with the transport's exception as cause: TimeoutException for
\* a message that tells of a timeout, DuckDuckGoSearchException for any other;
\* no sleep and no request follows.
C9_TransportExceptionRaises ==
    \A c \in Callers :
        (entry[c] = "send" /\ resp[c].kind = "exception") =>
            \/ pc[c] = "m_except"
            \/ /\ pc[c] = "done"
               /\ ret[c].kind = "raise"
               /\ ret[c].exc.cause = resp[c].msg
               /\ ret[c].exc.cls =
                     IF resp[c].msg \in TimeoutMessages
                     THEN "TimeoutException"
                     ELSE "DuckDuckGoSearchException"
               /\ nReq[c] = attempt[c]
               /\ nSleep[c] = nReq[c] - 1

\* A send has raised TimeoutException for "Timed out" at its second attempt.
C9_Witness ==
    /\ entry["c1"] = "send" /\ pc["c1"] = "done" /\ ret["c1"].kind = "raise"
    /\ resp["c1"].kind = "exception" /\ resp["c1"].msg = MsgTimedOut
    /\ ret["c1"].exc.cls = "TimeoutException" /\ attempt["c1"] = 2

\* C10: a text() call with backend "auto" that has ended ran the backends in
\* their shuffled order, each at most once, and the second one exactly when the
\* first one raised; it returned what the last backend run returned if that one
\* did not raise, and raised only when both had raised.
C10_AutoFallback ==
    \A c \in Callers :
        (entry[c] = "search" /\ pc[c] = "done" /\ backend[c] = "auto") =>
            /\ Len(tried[c]) \in {1, 2}
            /\ tried[c] = SubSeq(backends[c], 1, Len(tried[c]))
            /\ Len(tried[c]) = 2 <=> nFailed[c] >= 1
            /\ result[c].kind = "raise" <=> nFailed[c] = 2
            /\ result[c].kind = "return" =>
                  /\ nFailed[c] = Len(tried[c]) - 1
                  /\ result[c].value =
                        IF LimitReached(max_results[c], results[c])
                        THEN Truncate(results[c], max_results[c][1])
                        ELSE results[c]

\* A text() call has returned the results of html after lite raised on a 500
\* answered to its first request.
C10_Witness ==
    /\ entry["c1"] = "search" /\ pc["c1"] = "done" /\ backend["c1"] = "auto"
    /\ tried["c1"] = <<"lite", "html">> /\ nFailed["c1"] = 1
    /\ last_err["c1"] = <<StatusException(500)>>
    /\ result["c1"].kind = "return" /\ Len(result["c1"].value) = 3

\* The bodies handed to the pagination loop that caller c ran last.
CurrentPages(c) == pages[c][Len(pages[c])]

\* A text() call of caller c has ended.
SearchEnded(c) == entry[c] = "search" /\ pc[c] = "done"

\* C11 as stated: a text() call for one named backend whose pagination loop
\* raised tries no other backend and raises that backend's own error.
C11_Original ==
    \A c \in Callers :
        (SearchEnded(c) /\ backend[c] \in {"html", "lite"} /\ nFailed[c] >= 1) =>
            /\ tried[c] = <<backend[c]>>
            /\ result[c].kind = "raise"
            /\ result[c].exc = errors[c][1]

\* C11, amended: a text() call for one named backend whose pagination loop
\* raised tries no other backend, makes no request after the failed one, and
\* raises DuckDuckGoSearchException with that backend's error as its argument.
C11_Wrapped ==
    \A c \in Callers :
        (SearchEnded(c) /\ backend[c] \in {"html", "lite"} /\ nFailed[c] >= 1) =>
            /\ tried[c] = <<backend[c]>>
            /\ nFailed[c] = 1
            /\ ret[c].kind = "raise"
            /\ nPages[c] = Len(CurrentPages(c)) + 1
            /\ result[c].kind = "raise"
            /\ result[c].exc.cls = "DuckDuckGoSearchException"
            /\ result[c].exc.cause = <<ret[c].exc>>

\* A text() call for lite has raised after a timeout on its second page.
C11_Witness ==
    /\ SearchEnded("c1") /\ backend["c1"] = "lite" /\ nFailed["c1"] = 1
    /\ Len(CurrentPages("c1")) = 1
    /\ ret["c1"].kind = "raise" /\ ret["c1"].exc.cls = "TimeoutException"

\* C12: the exception raised after every backend tried has failed carries the
\* error of the backend that failed last.
C12_CarriesLastError ==
    \A c \in Callers :
        (SearchEnded(c) /\ result[c].kind = "raise" /\ nFailed[c] >= 1) =>
            /\ Len(errors[c]) = nFailed[c]
            /\ nFailed[c] = Len(tried[c])
            /\ result[c].exc = SearchException(<<errors[c][Len(errors[c])]>>)

\* Both backends have failed, each with an error of its own.
C12_Witness ==
    /\ SearchEnded("c1") /\ result["c1"].kind = "raise" /\ nFailed["c1"] = 2
    /\ errors["c1"][1] # errors["c1"][2]
    /\ result["c1"].exc.cause = <<errors["c1"][2]>>

\* The backend whose pagination loop caller c ran last.
CurrentBackend(c) == tried[c][Len(tried[c])]

\* The first n elements of rs, or all of rs when it has fewer.
FirstN(rs, n) == SubSeq(rs, 1, IF n < Len(rs) THEN n ELSE Len(rs))

\* The pages of ps but a last one that carries the no-results marker.
Parsed(b, ps) ==
    IF ps # <<>> /\ NoResults(b, ps[Len(ps)]) THEN SubSeq(ps, 1, Len(ps) - 1) ELSE ps

\* The results and the seen set that parsing pages i, i + 1, ... of ps in turn
\* adds to rs and sn.
RECURSIVE PagesFold(_, _, _, _, _)
PagesFold(b, ps, i, sn, rs) ==
    IF i > Len(ps)
    THEN [results |-> rs, seen |-> sn]
    ELSE LET parsed == Parse(b, ps[i], sn)
         IN  PagesFold(b, ps, i + 1, parsed.seen, rs \o parsed.results)

\* What one pagination loop of backend b makes of the pages ps alone.
Accumulated(b, ps) == PagesFold(b, Parsed(b, ps), 1, {}, <<>>)

\* max_results, when it is a positive integer
HasLimit(c) == max_results[c] # <<>> /\ max_results[c][1] > 0

\* max_results, when it is None or 0
NoLimit(c) == max_results[c] \in {<<>>, <<0>>}

\* C13: the list text() returns is what the one pagination loop that ended
\* without raising made of its own pages; every loop before it raised, and
\* nothing of their pages is in the list.
C13_OneAttemptOnly ==
    \A c \in Callers :
        (SearchEnded(c) /\ result[c].kind = "return") =>
            /\ nFailed[c] = Len(tried[c]) - 1
            /\ LET all == Accumulated(CurrentBackend(c), CurrentPages(c)).results
               IN  IF HasLimit(c) THEN result[c].value = FirstN(all, max_results[c][1])
                   ELSE IF NoLimit(c) THEN result[c].value = all
                   ELSE /\ Len(result[c].value) <= Len(all)
                        /\ result[c].value = SubSeq(all, 1, Len(result[c].value))

\* html raised after a first page of two results; lite then returned the two
\* results of the one page it was handed.
C13_Witness ==
    /\ SearchEnded("c1") /\ result["c1"].kind = "return"
    /\ tried["c1"] = <<"html", "lite">> /\ nFailed["c1"] = 1
    /\ pages["c1"] = <<(<<Page1>>), (<<Page2>>)>>
    /\ Len(result["c1"].value) = 2

\* C14: the list text() returns never holds two results with the same
\* normalized href.
C14_UniqueHrefs ==
    \A c \in Callers :
        (SearchEnded(c) /\ result[c].kind = "return") =>
            \A i, j \in 1 .. Len(result[c].value) :
                i # j => result[c].value[i].href # result[c].value[j].href

C16_Truncated ==
    \A c \in Callers :
        (SearchEnded(c) /\ result[c].kind = "return" /\ HasLimit(c)) =>
            LET b == CurrentBackend(c)
                ps == CurrentPages(c)
                n == max_results[c][1]
                all == Accumulated(b, ps).results
                value == result[c].value
            IN  /\ Len(value) <= n
                /\ Len(value) = (IF n < Len(all) THEN n ELSE Len(all))
                /\ \A i \in 1 .. Len(value) : value[i] = all[i]
                /\ nPages[c] = Len(ps)
                /\ \A k \in 1 .. Len(ps) - 1 :
                      Len(Accumulated(b, SubSeq(ps, 1, k)).results) < n

\* With max_results = 3, pages of two and of three results gave both results
\* of the first page and the first one of the second.
C16_Witness ==
    /\ SearchEnded("c1") /\ result["c1"].kind = "return"
    /\ max_results["c1"] = <<3>> /\ CurrentPages("c1") = <<Page1, Page2>>
    /\ Len(Accumulated(CurrentBackend("c1"), CurrentPages("c1")).results) = 4
    /\ Len(result["c1"].value) = 3
    /\ result["c1"].value[3].href = NormalizeUrl(Href("b", FALSE))

\* C17: a pagination loop without a result limit that has returned made one
\* request per page it was handed; every page but the last carried a
\* continuation and no no-results marker, the last one carried the marker or
\* no continuation, and without the marker the results of all the pages are
\* returned.
C17_StopsAtLastPage ==
    \A c \in Callers :
        (SearchEnded(c) /\ result[c].kind = "return" /\ NoLimit(c)) =>
            LET b == CurrentBackend(c)
                ps == CurrentPages(c)
                N == Len(ps)
            IN  /\ N >= 1
                /\ nPages[c] = N
                /\ \A k \in 1 .. N - 1 :
                      ~NoResults(b, ps[k]) /\ NextPayload(b, ps[k]) # <<>>
                /\ NoResults(b, ps[N]) \/ NextPayload(b, ps[N]) = <<>>
                /\ ~NoResults(b, ps[N]) =>
                      result[c].value = PagesFold(b, ps, 1, {}, <<>>).results

\* A loop without a limit has returned after three pages, the third without
\* a continuation.
C17_Witness ==
    /\ SearchEnded("c1") /\ result["c1"].kind = "return" /\ max_results["c1"] = <<>>
    /\ CurrentPages("c1") = <<Page1, Page1, Page2>> /\ nPages["c1"] = 3
    /\ Len(result["c1"].value) >= 3

\* C18: a pagination loop handed a page with the no-results marker has
\* returned what the pages before it gave: the page was the last one asked
\* for, and nothing of it is in results or in seen.
C18_ExhaustedStops ==
    \A c \in Callers :
        (SearchEnded(c) /\ result[c].kind = "return" /\ CurrentPages(c) # <<>>
            /\ NoResults(CurrentBackend(c), CurrentPages(c)[Len(CurrentPages(c))])) =>
            LET b == CurrentBackend(c)
                ps == CurrentPages(c)
                before == PagesFold(b, SubSeq(ps, 1, Len(ps) - 1), 1, {}, <<>>)
            IN  /\ nPages[c] = Len(ps)
                /\ results[c] = before.results
                /\ seen[c] = before.seen
                /\ result[c].value = before.results

\* A loop has returned the two results of its first page after a second page
\* that carried the marker, a result and a continuation.
C18_Witness ==
    /\ SearchEnded("c1") /\ result["c1"].kind = "return"
    /\ CurrentPages("c1") = <<Page1, Page3>>
    /\ NextPayload(CurrentBackend("c1"), Page3) # <<>>
    /\ Len(Parse(CurrentBackend("c1"), Page3, seen["c1"]).results) = 1
    /\ Len(result["c1"].value) = 2

\* The step is caller c's second parse() of the same page returning.
ParsedAgain(c) == entry[c] = "parse" /\ pc[c] = "p_limit" /\ pc'[c] = "done"

\* C15: a second parse() of the same page with the same seen set returns an
\* empty list and leaves seen as it was.
C15_SecondParseEmpty ==
    [][\A c \in Callers : ParsedAgain(c) =>
            /\ result'[c].value = <<>>
            /\ seen'[c] = seen[c]]_vars

\* A page whose first parse gave two results has been parsed again.
C15_Witness ==
    /\ entry["c1"] = "parse" /\ pc["c1"] = "done"
    /\ Len(results["c1"]) = 2 /\ result["c1"].value = <<>>

\* C20: for attempts 1 to 5 the delay lies in [0.8 * 2^(attempt-1),
\* 1.2 * 2^(attempt-1)] seconds (delays in tenths of a second), and the
\* delay without jitter, 2^(attempt-1) seconds, is larger for a larger attempt.
C20_BackoffRange ==
    \A c \in Callers : entry[c] = "backoff" =>
        /\ 8 * 2 ^ (attempt[c] - 1) <= delay[c]
        /\ delay[c] <= 12 * 2 ^ (attempt[c] - 1)
        /\ base_delay * Pow2(attempt[c] - 1) = 10 * 2 ^ (attempt[c] - 1)
        /\ \A d \in Callers :
              (entry[d] = "backoff" /\ attempt[c] < attempt[d]) =>
                  base_delay * Pow2(attempt[c] - 1) < base_delay * Pow2(attempt[d] - 1)

\* Attempt 5 has been given the longest delay, 19.2 s, and attempt 1 the
\* shortest, 0.8 s.
C20_Witness ==
    /\ entry["c1"] = "backoff" /\ attempt["c1"] = 5 /\ delay["c1"] = 192
    /\ entry["c2"] = "backoff" /\ attempt["c2"] = 1 /\ delay["c2"] = 8

\* C21: a _make_request() call never makes more than 5 transport requests, it
\* has made at least 1 when it ends, by returning a body or by raising, and
\* the client's first call does end.
C21_Bounded ==
    \A c \in Callers : entry[c] = "send" =>
        /\ nReq[c] <= 5
        /\ pc[c] = "done" => (nReq[c] >= 1 /\ ret[c].kind \in {"return", "raise"})

C21_Terminates ==
    /\ []C21_Bounded
    /\ \A c \in Callers :
          (entry[c] = "send" /\ calls = 1) ~> (entry[c] = "send" /\ pc[c] = "done")

\* A call has ended at its fourth request, after each retryable status once.
C21_Witness ==
    /\ entry["c1"] = "send" /\ pc["c1"] = "done" /\ nReq["c1"] = 4
    /\ answers["c1"] = {202, 301, 403, 0} /\ ret["c1"].kind = "raise"

\* C22: a _wait_for_token() call makes at most two passes: a pass that finds
\* less than one token sleeps (1 - tokens) / refill_rate, the pass after the
\* sleep finds at least one token, and the call returns.
C22_Passes ==
    \A c \in Callers :
        /\ depth[c] <= 1
        /\ pc[c] \in {"w_sleep", "w_asleep"} => depth[c] = 0
        /\ (pc[c] = "w_test" /\ depth[c] = 1) => tokens >= OneToken

\* The sleep of a pass lasts (1 - tokens) / refill_rate, and only a pass that
\* found less than one token sleeps.
C22_SleepStep ==
    \A c \in Callers : (pc[c] = "w_sleep" /\ pc'[c] = "w_asleep") =>
        /\ tokens < OneToken
        /\ (wake'[c] - clock) * refill_rate = OneToken - tokens

C22_TwoPasses ==
    /\ []C22_Passes
    /\ [][C22_SleepStep]_vars
    /\ \A c \in Callers :
          (pc[c] = "w_now" /\ depth[c] = 0 /\ calls = 1) ~> (pc[c] = "m_request")

\* A second pass, after a sleep, has found the bucket refilled to one token.
C22_Witness ==
    /\ pc["c1"] = "w_test" /\ depth["c1"] = 1 /\ tokens = OneToken
    /\ now["c1"] = RefillPeriod

\* The step is caller c starting the sleep of _make_request.
BackoffSleeps(c) == pc[c] = "m_sleep" /\ pc'[c] = "m_asleep"

\* C30: in _make_request a sleep starts only after a 202, 301 or 403 answered
\* to an attempt that is not the last, it is the attempt's own sleep, for
\* delay_for(attempt), and a call that has ended has slept once less than it
\* has made requests.
C30_SleepStep ==
    \A c \in Callers : (entry[c] = "send" /\ BackoffSleeps(c)) =>
        /\ resp[c].kind = "response"
        /\ resp[c].status_code \in {202, 301, 403}
        /\ attempt[c] < 5
        /\ nReq[c] = attempt[c]
        /\ nSleep[c] = attempt[c] - 1
        /\ 8 * 2 ^ (attempt[c] - 1) <= delay[c]
        /\ delay[c] <= 12 * 2 ^ (attempt[c] - 1)
        /\ (wake'[c] - clock) * 10 >= delay[c]

C30_Ended ==
    \A c \in Callers : (entry[c] = "send" /\ pc[c] = "done") =>
        nSleep[c] = nReq[c] - 1

C30_SleepsBetweenAttempts == []C30_Ended /\ [][C30_SleepStep]_vars

\* A call of five requests has ended after four sleeps.
C30_Witness ==
    /\ entry["c1"] = "send" /\ pc["c1"] = "done"
    /\ nReq["c1"] = 5 /\ nSleep["c1"] = 4 /\ clock >= 24

\* The step is caller c's parse() of its page returning.
ParsedFirst(c) == entry[c] = "parse" /\ pc[c] = "p_parse" /\ pc'[c] = "p_limit"

\* The parser of caller c's parse() call.
ParsedWith(c) == backends[c][bi[c]]

\* The page's entries as the claims speak of them: entry k is the k-th <div>
\* of the html page or the k-th group of four rows of the lite page.
Entries(b, content) ==
    IF b = "html" THEN Len(content.divs) ELSE (Len(content.rows) + 3) \div 4
EntryLink(b, content, k) ==
    IF b = "html" THEN content.divs[k].href ELSE content.rows[4 * k - 3].href
EntryHasSnippet(b, content, k) ==
    b = "html" \/ 4 * k - 2 <= Len(content.rows)
HasPrefix(h) == h.ad # "none"
HasLink(h) == h.path # ""
Stripped(h) == [ad |-> h.ad, path |-> h.path, utm |-> FALSE]

\* C23: parse() returns no result whose link starts with one of the two
\* ad/redirect prefixes, and adds no such link to seen.
C23_AdsFiltered ==
    [][\A c \in Callers : ParsedFirst(c) =>
            /\ \A i \in 1 .. Len(results'[c]) : ~HasPrefix(results'[c][i].href)
            /\ \A h \in seen'[c] \ seen[c] : ~HasPrefix(h)
            /\ \A k \in 1 .. Entries(ParsedWith(c), ret[c].body) :
                  LET h == EntryLink(ParsedWith(c), ret[c].body, k)
                  IN  HasPrefix(h) =>
                        /\ Stripped(h) \notin {results'[c][i].href : i \in 1 .. Len(results'[c])}
                        /\ (h \notin seen[c] => h \notin seen'[c])]_vars

\* A lite page with an entry of each prefix and then a link has given one result.
C23_Witness ==
    /\ entry["c1"] = "parse" /\ pc["c1"] = "p_limit" /\ ParsedWith("c1") = "lite"
    /\ Len(ret["c1"].body.rows) = 12
    /\ ret["c1"].body.rows[1].href = AdHref("google")
    /\ ret["c1"].body.rows[5].href = AdHref("ddg")
    /\ Len(results["c1"]) = 1 /\ seen["c1"] = {Href("b", FALSE)}

\* Entry k of the page is one that parse() has to return: it has a link that
\* is no ad, its rows are there, and its link, tracking parameters apart, is
\* neither in seen nor the link of an earlier entry.
WellFormedNew(b, content, sn, k) ==
    LET h == EntryLink(b, content, k)
    IN  /\ HasLink(h) /\ ~HasPrefix(h)
        /\ EntryHasSnippet(b, content, k)
        /\ Stripped(h) \notin {Stripped(x) : x \in sn}
        /\ \A j \in 1 .. k - 1 : Stripped(EntryLink(b, content, j)) # Stripped(h)

\* C24: parse() drops an entry without a link, and returns every well-formed
\* entry that follows one on the page.
C24_NoLinkDropped ==
    [][\A c \in Callers : ParsedFirst(c) =>
          LET b == ParsedWith(c)
              content == ret[c].body
              hrefs == {results'[c][i].href : i \in 1 .. Len(results'[c])}
          IN  /\ \A h \in hrefs : HasLink(h)
              /\ \A h \in seen'[c] : HasLink(h)
              /\ \A j, k \in 1 .. Entries(b, content) :
                    (j < k /\ ~HasLink(EntryLink(b, content, j))
                           /\ WellFormedNew(b, content, seen[c], k))
                        => Stripped(EntryLink(b, content, k)) \in hrefs]_vars

\* An html page of a link, an entry without a link and another link has given
\* both links.
C24_Witness ==
    /\ entry["c1"] = "parse" /\ pc["c1"] = "p_limit" /\ ParsedWith("c1") = "html"
    /\ Len(ret["c1"].body.divs) = 3
    /\ ret["c1"].body.divs[1].href = Href("a", TRUE)
    /\ ret["c1"].body.divs[2].href = NoHref
    /\ ret["c1"].body.divs[3].href = Href("b", FALSE)
    /\ seen["c1"] = {Href("a", FALSE), Href("b", FALSE)}
    /\ Len(results["c1"]) = 2

\* The groups of a lite table that are accepted, in the table's order: the
\* link row 4k-3 has a link that is no ad, that is not in seen and that no
\* earlier group has, and the row 4k-2 is there.
AcceptedGroups(rows, sn) ==
    SelectSeq([k \in 1 .. (Len(rows) + 3) \div 4 |-> k],
              LAMBDA k :
                  LET h == rows[4 * k - 3].href
                  IN  /\ HasLink(h) /\ ~HasPrefix(h) /\ h \notin sn
                      /\ \A j \in 1 .. k - 1 : rows[4 * j - 3].href # h
                      /\ 4 * k - 2 <= Len(rows))

\* C25: LiteParser reads the rows in groups of four, accepted or rejected:
\* the results are those of the accepted groups, in order, each with the title
\* of its group's first row and the body of its group's second row.
C25_GroupsOfFour ==
    [][\A c \in Callers : (ParsedFirst(c) /\ ParsedWith(c) = "lite") =>
          LET rows == ret[c].body.rows
              groups == AcceptedGroups(rows, seen[c])
          IN  /\ Len(results'[c]) = Len(groups)
              /\ \A i \in 1 .. Len(groups) :
                    /\ results'[c][i].href = Stripped(rows[4 * groups[i] - 3].href)
                    /\ results'[c][i].title = SelectSeq(rows[4 * groups[i] - 3].title,
                                                        LAMBDA w : w # " ")
                    /\ results'[c][i].body = SelectSeq(rows[4 * groups[i] - 2].snippet,
                                                       LAMBDA w : w # " ")]_vars

\* A table of a rejected group between two accepted ones has given the first
\* and the third group.
C25_Witness ==
    /\ entry["c1"] = "parse" /\ pc["c1"] = "p_limit" /\ ParsedWith("c1") = "lite"
    /\ Len(ret["c1"].body.rows) = 12
    /\ ret["c1"].body.rows[5].href = AdHref("ddg")
    /\ Len(results["c1"]) = 2
    /\ results["c1"][1].title = <<"T1">> /\ results["c1"][1].body = <<"T1", "body">>
    /\ results["c1"][2].title = <<"T3">> /\ results["c1"][2].body = <<"T3", "body">>

\* C26: every link that parse() has added to seen is the link of a result of
\* the same call (tracking parameters apart).
C26_SeenHasResult ==
    [][\A c \in Callers : ParsedFirst(c) =>
          \A h \in seen'[c] \ seen[c] :
              \E i \in 1 .. Len(results'[c]) : results'[c][i].href = Stripped(h)]_vars

\* Caller c's pagination loop is at a request: about to call _make_request,
\* or inside it.
Requesting(c) ==
    /\ entry[c] = "search"
    /\ pc[c] \in {"p_request", "m_for", "m_wait", "m_request", "m_inflight", "m_except",
                  "m_status", "m_backoff", "m_sleep", "m_asleep",
                  "w_now", "w_elapsed", "w_refill", "w_stamp", "w_test", "w_sleep",
                  "w_asleep", "w_load", "w_store", "w_return"}

\* The keys of a payload, and the keys a page's continuation parameters supply.
PayloadKeys(p) == {p[i][1] : i \in 1 .. Len(p)}
Supplied(b, content) ==
    IF b = "html"
    THEN IF content.nav = <<>> THEN {}
         ELSE LET last == content.nav[Len(content.nav)]
              IN  {last.names[i] : i \in 1 .. Min(Len(last.names), Len(last.values))}
    ELSE IF content.next_s = <<>> THEN {} ELSE {"s"}

\* C27: the payload of the first request of a pagination loop is the one
\* _build_payload made; the payload of a later request is the mapping
\* next_payload gave for the page before and nothing else: it has a key only
\* if the page's continuation parameters supply it.
C27_PayloadReplaced ==
    \A c \in Callers : Requesting(c) =>
        LET b == CurrentBackend(c)
            ps == CurrentPages(c)
        IN  IF ps = <<>>
            THEN /\ {"q", "kl"} \subseteq PayloadKeys(payload[c])
                 /\ ("df" \in PayloadKeys(payload[c])) = (timelimit[c] # <<>>)
            ELSE /\ payload[c] = NextPayload(b, ps[Len(ps)])
                 /\ PayloadKeys(payload[c]) = Supplied(b, ps[Len(ps)])
                 /\ b = "lite" => PayloadKeys(payload[c]) = {"s"}

\* A lite search with a time limit is sending its second request, with the
\* offset alone.
C27_Witness ==
    /\ entry["c1"] = "search" /\ pc["c1"] = "m_inflight" /\ timelimit["c1"] = <<"d">>
    /\ CurrentBackend("c1") = "lite" /\ CurrentPages("c1") = <<Page1>>
    /\ payload["c1"] = <<<<"s", "10">>>>

\* Caller c's loop has returned all it accumulated, at a page with the
\* no-results marker or without a continuation.
RanToTheEnd(c) ==
    LET b == CurrentBackend(c)
        ps == CurrentPages(c)
    IN  /\ ps # <<>>
        /\ NoResults(b, ps[Len(ps)]) \/ NextPayload(b, ps[Len(ps)]) = <<>>
        /\ result[c].value = results[c]
        /\ result[c].value = Accumulated(b, ps).results

\* C28: text() applies the result limit only when max_results is a positive
\* integer: then it returns no more than max_results results, and with any
\* other max_results its loop runs to exhaustion or to a page without a
\* continuation and returns all it accumulated.
C28_LimitOnlyWhenPositive ==
    \A c \in Callers : (SearchEnded(c) /\ result[c].kind = "return") =>
        IF HasLimit(c)
        THEN Len(result[c].value) <= max_results[c][1]
        ELSE RanToTheEnd(c)

\* The same for max_results None and 0 alone.
C28_ZeroIsNoLimit ==
    \A c \in Callers : (SearchEnded(c) /\ result[c].kind = "return" /\ NoLimit(c)) =>
        RanToTheEnd(c)

\* C29: text() called with another backend name than "auto", "html", "lite"
\* or the deprecated names never waits for a token and never sends a request,
\* and ends by raising DuckDuckGoSearchException(None).
C29_UnknownBackend ==
    \A c \in Callers :
        (entry[c] = "search"
            /\ backend[c] \notin {"auto", "html", "lite", "api", "ecosia"}) =>
            /\ pc[c] \in {"t_start", "t_for", "t_try", "done"}
            /\ nAcq[c] = 0 /\ nReq[c] = 0 /\ nPages[c] = 0
            /\ tried[c] = <<>> /\ pages[c] = <<>> /\ errors[c] = <<>>
            /\ pc[c] = "done" =>
                  /\ result[c].kind = "raise"
                  /\ result[c].exc.cls = "DuckDuckGoSearchException"
                  /\ result[c].exc.cause = <<>>

\* text(backend="bing") has raised.
C29_Witness ==
    /\ SearchEnded("c1") /\ backend["c1"] = "bing" /\ backends["c1"] = <<"bing">>
    /\ bi["c1"] = 1 /\ result["c1"].kind = "raise"

=============================================================================
